---- MODULE Spec2Model ----
(***************************************************************************)
(* RTUBufferedPort (src/ports/rtubufferedport.js): a modbus-RTU port over  *)
(* a buffered serial connection.  write(data) remembers the unit, the      *)
(* command and the predicted answer length; the serial port's 'data'       *)
(* handler onData appends each inbound chunk to _buffer, scans it for an   *)
(* answer with the remembered header and emits at most one frame.          *)
(***************************************************************************)
EXTENDS Integers, Sequences, FiniteSets, TLC

EXCEPTION_LENGTH == 5
MAX_BUFFER_LENGTH == 256

\* What reading a Buffer past its end yields (JavaScript's undefined): a
\* value that is no byte, so it is !== to every byte.
Undefined == -1

VARIABLES
    _buffer,   \* this._buffer: the bytes received and not yet consumed
    _id,       \* this._id: the unit of the last accepted write
    _cmd,      \* this._cmd: the command of the last accepted write
    _length,   \* this._length: the predicted answer length
    debug,     \* this.debug
    effects,   \* what the last operation did to the outside, in order:
               \* 'debug' and 'data' events, frames given to _client.write
    lastOp,    \* the last operation, its argument and the state it found
    rx,        \* history: every inbound byte since construction
    sizes,     \* history: the size of every inbound chunk
    out,       \* history: every 'data' frame, with the receive event that
               \* emitted it and the place in rx its first byte came from
    lastWrite, \* history: the last accepted write and the histories' sizes then
    nOps       \* history: the number of operations performed

vars == <<_buffer, _id, _cmd, _length, debug, effects, lastOp, rx, sizes, out,
          lastWrite, nOps>>

---------------------------------------------------------------------------
(* Buffers: Node's Buffer indexes from 0, a TLA+ sequence from 1.          *)

\* buf[i] of the source: undefined outside the buffer.
At(buf, i) ==
    IF i >= 0 /\ i < Len(buf) THEN buf[i + 1] ELSE Undefined

\* buf.slice(start, end) for 0 <= start: both ends are clamped to the length.
Slice(buf, start, end) ==
    LET e == IF end > Len(buf) THEN Len(buf) ELSE end
    IN  IF start >= e THEN <<>> ELSE SubSeq(buf, start + 1, e)

\* buf.slice(start) for 0 <= start.
SliceFrom(buf, start) ==
    Slice(buf, start, Len(buf))

\* buf.slice(-n): the last n bytes, the whole buffer when it is shorter.
SliceLast(buf, n) ==
    IF Len(buf) <= n THEN buf ELSE SubSeq(buf, Len(buf) - n + 1, Len(buf))

\* 0x80 | c and 0x7f & c for a byte c.
Or80(c) ==
    IF c >= 128 THEN c ELSE c + 128

And7f(c) ==
    c % 128

\* data.readUInt16BE(4)
ReadUInt16BE4(data) ==
    data[5] * 256 + data[6]

\* parseInt(num / den) for den > 0: the number is written out in decimal and
\* its integer part is read back, which truncates towards zero.  (Only a
\* number below 1e-6 or from 1e21 is written with an exponent; the
\* quotients here are multiples of 1/8 below 8193.)
ParseIntRatio(num, den) ==
    IF num >= 0 THEN num \div den ELSE -((-num) \div den)

---------------------------------------------------------------------------
(* write: the expected answer length.                                      *)

\* TooShort with the limit one byte lower.
TooShortBelow5(data) ==
    Len(data) < 5

\* write's check of the data length.
TooShort(data) ==
    Len(data) < 6

\* ExpectedLength with an unrecognized command leaving this._length as it was.
ExpectedLengthStale(c, data) ==
    CASE c \in {1, 2} -> 3 + ParseIntRatio((ReadUInt16BE4(data) - 1) + 8, 8) + 2
      [] c \in {3, 4} -> 3 + 2 * ReadUInt16BE4(data) + 2
      [] c \in {5, 6, 15, 16} -> 6 + 2
      [] OTHER -> _length

\* ExpectedLength without the two trailing bytes of an answer of words.
ExpectedLengthNoCrc(c, data) ==
    CASE c \in {1, 2} -> 3 + ParseIntRatio((ReadUInt16BE4(data) - 1) + 8, 8) + 2
      [] c \in {3, 4} -> 3 + 2 * ReadUInt16BE4(data)
      [] c \in {5, 6, 15, 16} -> 6 + 2
      [] OTHER -> 0

\* ExpectedLength with parseInt((length - 1) / 8) + 1 for the bytes of bits.
ExpectedLengthParen(c, data) ==
    CASE c \in {1, 2} -> 3 + (ParseIntRatio(ReadUInt16BE4(data) - 1, 8) + 1) + 2
      [] c \in {3, 4} -> 3 + 2 * ReadUInt16BE4(data) + 2
      [] c \in {5, 6, 15, 16} -> 6 + 2
      [] OTHER -> 0

\* The switch of write: the answer length predicted for command c and request data.
ExpectedLength(c, data) ==
    CASE c \in {1, 2} ->
            LET length == ReadUInt16BE4(data)
            IN  \* (length - 1) / 8 + 1 is ((length - 1) + 8) / 8
                3 + ParseIntRatio((length - 1) + 8, 8) + 2
      [] c \in {3, 4} ->
            LET length == ReadUInt16BE4(data)
            IN  3 + 2 * length + 2
      [] c \in {5, 6, 15, 16} -> 6 + 2
      [] OTHER -> 0

---------------------------------------------------------------------------
(* onData: the scan.                                                       *)

\* NoParsing with the buffer needing more than EXCEPTION_LENGTH bytes.
NoParsingAtFive(expectedLength, bufferLength) ==
    expectedLength < 6 \/ bufferLength <= EXCEPTION_LENGTH

\* onData's check of the data length: nothing is parsed.
NoParsing(expectedLength, bufferLength) ==
    expectedLength < 6 \/ bufferLength < EXCEPTION_LENGTH

\* LoopBody without the break on a header whose bytes are still pending.
LoopBodyNoBreak(buf, bufferLength, unit, command, expectedLength, i) ==
    IF At(buf, i) # unit
    THEN [kind |-> "continue", start |-> i, len |-> 0]
    ELSE IF At(buf, i + 1) = command /\ i + expectedLength <= bufferLength
    THEN [kind |-> "emit", start |-> i, len |-> expectedLength]
    ELSE IF At(buf, i + 1) = Or80(command) /\ i + EXCEPTION_LENGTH <= bufferLength
    THEN [kind |-> "emit", start |-> i, len |-> EXCEPTION_LENGTH]
    ELSE [kind |-> "continue", start |-> i, len |-> 0]

\* LoopBody breaking at every offset that holds the unit and no whole frame.
LoopBodyBreakOnUnit(buf, bufferLength, unit, command, expectedLength, i) ==
    IF At(buf, i) # unit
    THEN [kind |-> "continue", start |-> i, len |-> 0]
    ELSE IF At(buf, i + 1) = command /\ i + expectedLength <= bufferLength
    THEN [kind |-> "emit", start |-> i, len |-> expectedLength]
    ELSE IF At(buf, i + 1) = Or80(command) /\ i + EXCEPTION_LENGTH <= bufferLength
    THEN [kind |-> "emit", start |-> i, len |-> EXCEPTION_LENGTH]
    ELSE [kind |-> "break", start |-> i, len |-> 0]

\* The body of onData's for loop at offset i.  buf is this._buffer as it is
\* when the loop runs; bufferLength is the local of that name, which was read
\* before the buffer was cut to MAX_BUFFER_LENGTH.
LoopBody(buf, bufferLength, unit, command, expectedLength, i) ==
    LET unitId       == At(buf, i)
        functionCode == At(buf, i + 1)
    IN  IF unitId # unit
        THEN [kind |-> "continue", start |-> i, len |-> 0]
        ELSE IF functionCode = command /\ i + expectedLength <= bufferLength
        THEN [kind |-> "emit", start |-> i, len |-> expectedLength]
        ELSE IF functionCode = Or80(command) /\ i + EXCEPTION_LENGTH <= bufferLength
        THEN [kind |-> "emit", start |-> i, len |-> EXCEPTION_LENGTH]
        ELSE IF functionCode = And7f(command)
        THEN [kind |-> "break", start |-> i, len |-> 0]
        ELSE [kind |-> "continue", start |-> i, len |-> 0]

\* The for loop of onData: i runs from 0 to maxOffset and the loop ends at the
\* first offset whose body returns or breaks; "end" when there is none.
Scan(buf, bufferLength, unit, command, expectedLength) ==
    LET maxOffset == bufferLength - EXCEPTION_LENGTH
        stops == {i \in 0..maxOffset :
                    LoopBody(buf, bufferLength, unit, command, expectedLength, i).kind
                        # "continue"}
    IN  IF stops = {}
        THEN [kind |-> "end", start |-> maxOffset + 1, len |-> 0]
        ELSE LoopBody(buf, bufferLength, unit, command, expectedLength,
                      CHOOSE i \in stops : \A j \in stops : i <= j)

\* _emitData emptying the buffer instead of cutting the frame off it.
EmitDataClearing(buf, start, length, dbg) ==
    LET buffer == Slice(buf, start, start + length)
    IN  [effects |-> (IF dbg
                      THEN <<[event |-> "debug", action |-> "recive", data |-> buffer]>>
                      ELSE <<>>)
                     \o <<[event |-> "data", action |-> "", data |-> buffer]>>,
         buffer  |-> <<>>,
         start   |-> start]

\* _emitData cutting the buffer at the start of the frame, not at its end.
EmitDataKeepFrame(buf, start, length, dbg) ==
    LET buffer == Slice(buf, start, start + length)
    IN  [effects |-> (IF dbg
                      THEN <<[event |-> "debug", action |-> "recive", data |-> buffer]>>
                      ELSE <<>>)
                     \o <<[event |-> "data", action |-> "", data |-> buffer]>>,
         buffer  |-> SliceFrom(buf, start),
         start   |-> start]

\* _emitData(start, length) on buffer buf: the events it emits, and the
\* buffer it leaves.
EmitData(buf, start, length, dbg) ==
    LET buffer == Slice(buf, start, start + length)
    IN  [effects |-> (IF dbg
                      THEN <<[event |-> "debug", action |-> "recive", data |-> buffer]>>
                      ELSE <<>>)
                     \o <<[event |-> "data", action |-> "", data |-> buffer]>>,
         buffer  |-> SliceFrom(buf, start + length),
         start   |-> start]

\* Emitting every frame the buffer holds, one scan after the other.
RECURSIVE EmitAll(_, _, _, _, _)
EmitAll(buf, unit, command, expectedLength, dbg) ==
    LET r == Scan(buf, Len(buf), unit, command, expectedLength)
    IN  IF r.kind = "emit"
        THEN LET e    == EmitData(buf, r.start, r.len, dbg)
                 more == EmitAll(e.buffer, unit, command, expectedLength, dbg)
             IN  [effects |-> e.effects \o more.effects, buffer |-> more.buffer]
        ELSE [effects |-> <<>>, buffer |-> buf]

\* OnDataResult scanning again after each frame until none is found.
OnDataResultAll(buf, data, unit, command, expectedLength, dbg) ==
    LET appended     == buf \o data
        bufferLength == Len(appended)
    IN  IF NoParsing(expectedLength, bufferLength)
        THEN [scan |-> [kind |-> "return", start |-> 0, len |-> 0],
              effects |-> <<>>, buffer |-> appended, scanned |-> appended]
        ELSE LET cut == IF bufferLength > MAX_BUFFER_LENGTH
                        THEN SliceLast(appended, MAX_BUFFER_LENGTH)
                        ELSE appended
                 r   == Scan(cut, bufferLength, unit, command, expectedLength)
             IN  IF r.kind = "emit"
                 THEN LET e    == EmitData(cut, r.start, r.len, dbg)
                          more == EmitAll(e.buffer, unit, command, expectedLength, dbg)
                      IN  [scan |-> r, effects |-> e.effects \o more.effects,
                           buffer |-> more.buffer, scanned |-> cut]
                 ELSE [scan |-> r, effects |-> <<>>, buffer |-> cut, scanned |-> cut]

\* The whole handler on buffer buf and chunk data: the scan's outcome, the
\* events emitted, the buffer left, and the buffer the scan ran on.
OnDataResult(buf, data, unit, command, expectedLength, dbg) ==
    LET appended     == buf \o data
        bufferLength == Len(appended)
    IN  IF NoParsing(expectedLength, bufferLength)
        THEN [scan |-> [kind |-> "return", start |-> 0, len |-> 0],
              effects |-> <<>>, buffer |-> appended, scanned |-> appended]
        ELSE LET cut == IF bufferLength > MAX_BUFFER_LENGTH
                        THEN SliceLast(appended, MAX_BUFFER_LENGTH)
                        ELSE appended
                 r   == Scan(cut, bufferLength, unit, command, expectedLength)
             IN  IF r.kind = "emit"
                 THEN LET e == EmitData(cut, r.start, r.len, dbg)
                      IN  [scan |-> r, effects |-> e.effects, buffer |-> e.buffer,
                           scanned |-> cut]
                 ELSE [scan |-> r, effects |-> <<>>, buffer |-> cut, scanned |-> cut]

\* The 'data' frames among a list of effects.
DataFrames(effs) ==
    SelectSeq(effs, LAMBDA e : e.event = "data")

NoScan == [kind |-> "none", start |-> 0, len |-> 0]

\* What lastOp records of the state an operation found.
Pre ==
    [buffer |-> _buffer, id |-> _id, cmd |-> _cmd, length |-> _length,
     debug |-> debug]

---------------------------------------------------------------------------
(* The operations.                                                         *)

Init ==
    /\ _buffer = <<>>
    /\ _id = 0
    /\ _cmd = 0
    /\ _length = 0
    /\ debug = FALSE
    /\ effects = <<>>
    /\ lastOp = [op |-> "new", data |-> <<>>, pre |-> [buffer |-> <<>>, id |-> 0,
                 cmd |-> 0, length |-> 0, debug |-> FALSE], scan |-> NoScan]
    /\ rx = <<>>
    /\ sizes = <<>>
    /\ out = <<>>
    /\ lastWrite = [n |-> 0, data |-> <<>>, rxAt |-> 0, evAt |-> 0, outAt |-> 0,
                    bufferAt |-> <<>>]
    /\ nOps = 0

\* onData resetting the expected length once a frame is emitted.
OnDataResetting(data) ==
    LET res == OnDataResult(_buffer, data, _id, _cmd, _length, debug)
        frames == DataFrames(res.effects)
    IN  /\ _buffer' = res.buffer
        /\ effects' = res.effects
        /\ lastOp' = [op |-> "onData", data |-> data, pre |-> Pre, scan |-> res.scan]
        /\ rx' = rx \o data
        /\ sizes' = Append(sizes, Len(data))
        /\ out' = out \o [k \in 1..Len(frames) |->
                            [ev |-> Len(sizes) + 1,
                             start |-> Len(rx) + Len(data) - Len(res.scanned)
                                       + res.scan.start,
                             frame |-> frames[k].data]]
        /\ nOps' = nOps + 1
        /\ _length' = IF frames = <<>> THEN _length ELSE 0
        /\ UNCHANGED <<_id, _cmd, debug, lastWrite>>

\* The serial port delivers chunk data: the 'data' handler onData.
OnData(data) ==
    LET res == OnDataResult(_buffer, data, _id, _cmd, _length, debug)
        frames == DataFrames(res.effects)
    IN  /\ _buffer' = res.buffer
        /\ effects' = res.effects
        /\ lastOp' = [op |-> "onData", data |-> data, pre |-> Pre, scan |-> res.scan]
        /\ rx' = rx \o data
        /\ sizes' = Append(sizes, Len(data))
        /\ out' = out \o [k \in 1..Len(frames) |->
                            [ev |-> Len(sizes) + 1,
                             start |-> Len(rx) + Len(data) - Len(res.scanned)
                                       + res.scan.start,
                             frame |-> frames[k].data]]
        /\ nOps' = nOps + 1
        /\ UNCHANGED <<_id, _cmd, _length, debug, lastWrite>>

\* this._client.write(data), with the expectation in force when it is called.
ClientWrite(data, unit, command, expectedLength) ==
    [event |-> "write", action |-> "", data |-> data,
     expect |-> <<unit, command, expectedLength>>]

\* write giving the frame to the serial port before it remembers the request.
WriteSendFirst(data) ==
    /\ lastOp' = [op |-> "write", data |-> data, pre |-> Pre, scan |-> NoScan]
    /\ nOps' = nOps + 1
    /\ IF TooShort(data)
       THEN /\ effects' = <<>>
            /\ UNCHANGED <<_id, _cmd, _length, lastWrite>>
       ELSE /\ effects' = <<ClientWrite(data, _id, _cmd, _length)>>
                          \o (IF debug
                              THEN <<[event |-> "debug", action |-> "send",
                                      data |-> data]>>
                              ELSE <<>>)
            /\ _id' = data[1]
            /\ _cmd' = data[2]
            /\ _length' = ExpectedLength(data[2], data)
            /\ lastWrite' = [n |-> lastWrite.n + 1, data |-> data, rxAt |-> Len(rx),
                             evAt |-> Len(sizes), outAt |-> Len(out),
                             bufferAt |-> _buffer]
    /\ UNCHANGED <<_buffer, debug, rx, sizes, out>>

\* write emptying the buffer for the answer to come.
WriteClearingBuffer(data) ==
    /\ lastOp' = [op |-> "write", data |-> data, pre |-> Pre, scan |-> NoScan]
    /\ nOps' = nOps + 1
    /\ IF TooShort(data)
       THEN /\ effects' = <<>>
            /\ UNCHANGED <<_buffer, _id, _cmd, _length, lastWrite>>
       ELSE /\ _id' = data[1]
            /\ _cmd' = data[2]
            /\ _length' = ExpectedLength(data[2], data)
            /\ _buffer' = <<>>
            /\ effects' = (IF debug
                           THEN <<[event |-> "debug", action |-> "send", data |-> data]>>
                           ELSE <<>>)
                          \o <<ClientWrite(data, data[1], data[2],
                                           ExpectedLength(data[2], data))>>
            /\ lastWrite' = [n |-> lastWrite.n + 1, data |-> data, rxAt |-> Len(rx),
                             evAt |-> Len(sizes), outAt |-> Len(out),
                             bufferAt |-> _buffer]
    /\ UNCHANGED <<debug, rx, sizes, out>>

\* write(data): the request is remembered (lines 123-148), then the debug
\* record is emitted, then the frame is given to the serial port.
Write(data) ==
    /\ lastOp' = [op |-> "write", data |-> data, pre |-> Pre, scan |-> NoScan]
    /\ nOps' = nOps + 1
    /\ IF TooShort(data)
       THEN /\ effects' = <<>>
            /\ UNCHANGED <<_id, _cmd, _length, lastWrite>>
       ELSE /\ _id' = data[1]
            /\ _cmd' = data[2]
            /\ _length' = ExpectedLength(data[2], data)
            /\ effects' = (IF debug
                           THEN <<[event |-> "debug", action |-> "send", data |-> data]>>
                           ELSE <<>>)
                          \o <<ClientWrite(data, _id', _cmd', _length')>>
            /\ lastWrite' = [n |-> lastWrite.n + 1, data |-> data, rxAt |-> Len(rx),
                             evAt |-> Len(sizes), outAt |-> Len(out),
                             bufferAt |-> _buffer]
    /\ UNCHANGED <<_buffer, debug, rx, sizes, out>>

\* The owner of the port sets its public debug field.
SetDebug(b) ==
    /\ debug # b
    /\ debug' = b
    /\ effects' = <<>>
    /\ lastOp' = [op |-> "setDebug", data |-> <<>>, pre |-> Pre, scan |-> NoScan]
    /\ nOps' = nOps + 1
    /\ UNCHANGED <<_buffer, _id, _cmd, _length, rx, sizes, out, lastWrite>>

---------------------------------------------------------------------------
(* The inputs the specifications draw from.                                *)

Supported == {1, 2, 3, 4, 5, 6, 15, 16}

Zeros(n) ==
    [k \in 1..n |-> 0]

\* A request of 6 bytes: unit u, command c, address 0, quantity q (big-endian).
Request(u, c, q) ==
    <<u, c, 0, 0, q \div 256, q % 256>>

\* n >= 2 bytes that begin with unit u and function code f.
Frame(u, f, n) ==
    <<u, f>> \o Zeros(n - 2)

\* The number of operations of a behaviour of Spec, of SpecLong, of SpecBytes.
MaxOps == 3
MaxLongOps == 3
MaxByteOps == 9

\* Spec: requests of commands 1 (answers of 5 and 6 bytes), 5 (8 bytes) and 99
\* (unsupported), for unit 1 (which is also command code 1) and unit 129
\* (which is also 0x80 | 1), and a write that is too short.
WriteMenu ==
    {Request(1, 1, 0), Request(1, 1, 1), Request(129, 1, 1), Request(1, 5, 0),
     Request(1, 99, 1), <<2, 5, 0, 0, 0>>}

\* The answers to those requests, whole and cut short.
FrameMenu ==
    {Frame(1, 1, 6), Frame(1, 129, 5), Frame(129, 1, 6), Frame(129, 129, 5),
     Frame(1, 5, 8), Frame(1, 133, 5)}

\* Spec: nothing, single bytes, the answers alone, behind a stray byte equal
\* to their unit, and twice in a row, and the start of an answer followed by
\* an exception answer.
ChunkMenu ==
    {<<>>, <<0>>, <<1>>, Frame(1, 1, 5)}
    \cup FrameMenu
    \cup {<<f[1]>> \o f : f \in FrameMenu}
    \cup {f \o f : f \in {Frame(1, 1, 6), Frame(1, 129, 5), Frame(1, 5, 8)}}
    \cup {<<1, 5>> \o Frame(1, 133, 5)}

\* SpecLong: answers of 256 and 257 bytes, chunks that fill the buffer, and
\* a stray byte alone.
LongWriteMenu ==
    {Request(2, 1, 0), Request(2, 1, 1), Request(2, 1, 2008), Request(2, 3, 126),
     Request(2, 99, 0), Request(129, 1, 1)}

LongFrameMenu ==
    {Frame(2, 1, 6), Frame(2, 1, 256), Frame(2, 3, 257), Frame(2, 129, 5),
     Frame(2, 131, 5)}

\* The same behind a stray byte equal to their unit, also for unit 129.
LongChunkMenu ==
    {Zeros(252), Zeros(257), Frame(2, 1, 5), <<2>>, <<129>>}
    \cup {<<>>, Frame(2, 1, 6) \o Frame(2, 1, 6)}
    \cup LongFrameMenu
    \cup {<<f[1]>> \o f : f \in LongFrameMenu \cup {Frame(129, 1, 6), Frame(129, 129, 5)}}

\* SpecBytes: one request (answers of 5, 6 and 8 bytes), then single bytes.
ByteWriteMenu ==
    {Request(1, 1, 0), Request(1, 1, 1), Request(129, 1, 17)}

ByteMenu ==
    {0, 1, 129}

\* SpecLen: every command code with quantities around the multiples of 8 and
\* at both ends of the 16-bit range, and the supported commands with every
\* low byte of the quantity.
QSamples ==
    {0, 1, 7, 8, 9, 15, 16, 17, 125, 126, 255, 256, 257, 2000, 2008, 2009,
     32767, 32768, 65528, 65529, 65535}

LenMenu ==
    {Request(1, c, q) : c \in 0..255, q \in QSamples}
    \cup {Request(247, c, q) \o <<0, 0>> :
             c \in Supported, q \in (0..255) \cup (65280..65535)}

---------------------------------------------------------------------------
(* The specifications.                                                     *)

WriteStep ==
    /\ nOps < MaxOps
    /\ \E data \in WriteMenu : Write(data)

OnDataStep ==
    /\ nOps < MaxOps
    /\ \E data \in ChunkMenu : OnData(data)

SetDebugStep ==
    /\ nOps < MaxOps
    /\ \E b \in BOOLEAN : SetDebug(b)

Next ==
    WriteStep \/ OnDataStep \/ SetDebugStep

Spec == Init /\ [][Next]_vars

LongWriteStep ==
    /\ nOps < MaxLongOps
    /\ \E data \in LongWriteMenu : Write(data)

LongOnDataStep ==
    /\ nOps < MaxLongOps
    /\ \E data \in LongChunkMenu : OnData(data)

NextLong ==
    LongWriteStep \/ LongOnDataStep

SpecLong == Init /\ [][NextLong]_vars

\* One request on the new port, then its answer (or anything else) one byte
\* per receive event.
ByteWriteStep ==
    /\ nOps < MaxByteOps
    /\ lastOp.op = "new"
    /\ \E data \in ByteWriteMenu : Write(data)

ByteOnDataStep ==
    /\ nOps < MaxByteOps
    /\ lastOp.op # "new"
    /\ \E b \in ByteMenu : OnData(<<b>>)

NextBytes ==
    ByteWriteStep \/ ByteOnDataStep

SpecBytes == Init /\ [][NextBytes]_vars

\* One write on the new port.
LenWriteStep ==
    /\ lastOp.op = "new"
    /\ \E data \in LenMenu : Write(data)

NextLen ==
    LenWriteStep

SpecLen == Init /\ [][NextLen]_vars

---------------------------------------------------------------------------
(* The properties.                                                         *)

\* The 'data' frames of the last operation.
LastFrames ==
    DataFrames(effects)

\* f is an answer to the expectation in force: a normal frame or an exception.
IsNormal(f) ==
    Len(f) = _length /\ Len(f) >= 2 /\ f[1] = _id /\ f[2] = _cmd

IsException(f) ==
    Len(f) = EXCEPTION_LENGTH /\ f[1] = _id /\ f[2] = Or80(_cmd)

\* The inbound bytes, and the 'data' frames, since the last accepted write.
StreamSinceWrite ==
    SubSeq(rx, lastWrite.rxAt + 1, Len(rx))

FramesSinceWrite ==
    SubSeq(out, lastWrite.outAt + 1, Len(out))

\* The quantity field of the last accepted write.
LastQuantity ==
    lastWrite.data[5] * 256 + lastWrite.data[6]

\* C1: every frame carried by a 'data' event is a normal frame of exactly
\* expectedLength bytes that begins with (unitId, commandCode), or an
\* exception frame of exactly 5 bytes that begins with
\* (unitId, 0x80 | commandCode), also when the buffer was first cut to its
\* last 256 bytes.
C1_EmittedFrameIsWholeAnswer ==
    \A k \in 1..Len(LastFrames) :
        IsNormal(LastFrames[k].data) \/ IsException(LastFrames[k].data)

\* C2: once a receive event has been handled the buffer holds at most 256
\* bytes, whatever the expectation is.
C2_BufferAtMostMax ==
    lastOp.op = "onData" => Len(_buffer) <= MAX_BUFFER_LENGTH

\* C3: a receive event produces at most one 'data' event, a write (or any
\* other operation) none, and the 'data' events are never more than the
\* receive events: each receive event emitted at most one of them.
C3_AtMostOneDataPerReceive ==
    /\ Len(LastFrames) <= 1
    /\ lastOp.op # "onData" => LastFrames = <<>>
    /\ Len(out) <= Len(sizes)
    /\ \A j, k \in 1..Len(out) : j < k => out[j].ev < out[k].ev

\* C3's case: a receive event emitted a frame and left a second whole
\* matching frame in the buffer.
C3_Witness ==
    /\ lastOp.op = "onData"
    /\ Len(LastFrames) = 1
    /\ Len(_buffer) >= _length
    /\ _buffer[1] = _id
    /\ _buffer[2] = _cmd

\* The chunk of the last receive event came into an empty buffer, with a
\* supported command written before.
C4_Case ==
    /\ lastOp.op = "onData"
    /\ lastOp.pre.buffer = <<>>
    /\ lastWrite.n > 0
    /\ _cmd \in Supported

\* C4 as claimed: after a write of a supported command with the buffer empty,
\* one chunk of exactly expectedLength bytes that begins with
\* (unitId, commandCode), or of exactly 5 bytes that begins with
\* (unitId, 0x80 | commandCode), yields exactly one 'data' event carrying the
\* chunk and leaves the buffer empty.
C4_Original ==
    C4_Case /\ (IsNormal(lastOp.data) \/ IsException(lastOp.data))
        => /\ Len(LastFrames) = 1
           /\ LastFrames[1].data = lastOp.data
           /\ _buffer = <<>>

\* C4 amended: the same when expectedLength is at least 6, and for the normal
\* frame at most 256.
C4_ExactAnswerIsEmitted ==
    C4_Case /\ _length >= 6
            /\ \/ IsNormal(lastOp.data) /\ _length <= MAX_BUFFER_LENGTH
               \/ IsException(lastOp.data)
        => /\ Len(LastFrames) = 1
           /\ LastFrames[1].data = lastOp.data
           /\ _buffer = <<>>

\* C4's case: a normal answer of 256 bytes was delivered as one chunk and
\* emitted.
C4_Witness ==
    /\ C4_Case
    /\ IsNormal(lastOp.data)
    /\ _length = MAX_BUFFER_LENGTH
    /\ Len(LastFrames) = 1

\* The bytes received since a write of a supported command that found the
\* buffer empty came one per receive event and are the start of an answer
\* of the predicted length.
C5_Case ==
    /\ lastWrite.n > 0
    /\ lastWrite.bufferAt = <<>>
    /\ _cmd \in Supported
    /\ \A k \in (lastWrite.evAt + 1)..Len(sizes) : sizes[k] = 1
    /\ Len(StreamSinceWrite) <= _length
    /\ Len(StreamSinceWrite) >= 1 => StreamSinceWrite[1] = _id
    /\ Len(StreamSinceWrite) >= 2 => StreamSinceWrite[2] = _cmd

\* What feeding the answer byte by byte must have produced: nothing before
\* its last byte, and with its last byte the one frame that the same bytes
\* produce as a single chunk, which is the whole answer.
C5_SameAsOneChunk ==
    /\ Len(StreamSinceWrite) < _length => FramesSinceWrite = <<>>
    /\ Len(StreamSinceWrite) = _length =>
          /\ FramesSinceWrite =
                <<[ev |-> Len(sizes), start |-> lastWrite.rxAt,
                   frame |-> StreamSinceWrite]>>
          /\ LET one == DataFrames(OnDataResult(<<>>, StreamSinceWrite, _id, _cmd,
                                                _length, debug).effects)
             IN  Len(one) = 1 /\ one[1].data = StreamSinceWrite

\* C5 as claimed: for every write of a supported command, an answer of the
\* predicted length fed one byte per receive event produces the frames it
\* produces as a single chunk: exactly one, the whole answer, emitted by the
\* event that delivers its last byte.
C5_Original ==
    C5_Case => C5_SameAsOneChunk

\* C5 amended: the same when the predicted length is from 6 to 256.
C5_BytewiseSameAsOneChunk ==
    C5_Case /\ _length >= 6 /\ _length <= MAX_BUFFER_LENGTH => C5_SameAsOneChunk

\* C5's case: the last of 8 single bytes completed an answer whose body
\* holds a whole exception frame, and the answer was emitted.
C5_Witness ==
    /\ C5_Case
    /\ _length = 8
    /\ Len(StreamSinceWrite) = 8
    /\ StreamSinceWrite[3] = _id
    /\ StreamSinceWrite[4] = Or80(_cmd)
    /\ Len(FramesSinceWrite) = 1

\* With scanning enabled, the bytes received since a write that found the
\* buffer empty are one byte equal to the unit followed by a whole correct
\* answer, and the byte after the stray byte is not the command.
C6_Case ==
    /\ lastWrite.n > 0
    /\ lastWrite.bufferAt = <<>>
    /\ _length >= 6
    /\ Len(StreamSinceWrite) >= 2
    /\ StreamSinceWrite[1] = _id
    /\ StreamSinceWrite[2] # _cmd
    /\ IsNormal(Tail(StreamSinceWrite)) \/ IsException(Tail(StreamSinceWrite))

\* One 'data' event carries the answer that starts one byte into the stream.
C6_AnswerAtOffsetOne ==
    /\ Len(FramesSinceWrite) = 1
    /\ FramesSinceWrite[1].start = lastWrite.rxAt + 1
    /\ FramesSinceWrite[1].frame = Tail(StreamSinceWrite)

\* C6 as claimed: a stray byte equal to the unit, followed by a whole correct
\* answer and not by the command code, does not keep the answer that starts
\* at offset 1 from being the frame emitted.
C6_Original ==
    C6_Case => C6_AnswerAtOffsetOne

\* C6 amended: the same when the unit is not 0x80 | commandCode either and a
\* normal answer is at most 256 bytes long.
C6_ResyncAfterStrayByte ==
    C6_Case /\ StreamSinceWrite[2] # Or80(_cmd)
            /\ (IsNormal(Tail(StreamSinceWrite)) => _length <= MAX_BUFFER_LENGTH)
        => C6_AnswerAtOffsetOne

\* C6's case: the stray byte and the answer came in one chunk, the scan
\* passed the stray byte and emitted the frame at offset 1.
C6_Witness ==
    /\ C6_Case
    /\ StreamSinceWrite[2] # Or80(_cmd)
    /\ Len(sizes) = lastWrite.evAt + 1
    /\ lastOp.op = "onData"
    /\ lastOp.scan.kind = "emit"
    /\ lastOp.scan.start = 1
    /\ Len(FramesSinceWrite) = 1

\* C7: after a write of at least 6 bytes with an unsupported command,
\* expectedLength is 0 and no receive event emits anything until the next
\* accepted write.
C7_UnsupportedCommandDisablesMatching ==
    lastWrite.n > 0 /\ lastWrite.data[2] \notin Supported
        => /\ _length = 0
           /\ FramesSinceWrite = <<>>
           /\ lastOp.op = "onData" => effects = <<>>

\* C7's case: after a supported and then an unsupported write, a chunk of a
\* whole answer to the first arrived.
C7_Witness ==
    /\ lastWrite.n = 2
    /\ lastWrite.data[2] \notin Supported
    /\ lastOp.op = "onData"
    /\ Len(lastOp.data) >= 6
    /\ lastOp.data[1] = _id

\* C8: a write of fewer than 6 bytes changes neither the expectation nor the
\* buffer, gives nothing to the transport and emits no debug record.
C8_ShortWriteIsIgnored ==
    lastOp.op = "write" /\ Len(lastOp.data) < 6
        => /\ _id = lastOp.pre.id
           /\ _cmd = lastOp.pre.cmd
           /\ _length = lastOp.pre.length
           /\ _buffer = lastOp.pre.buffer
           /\ effects = <<>>

\* C8's case: a write of 5 bytes with another unit and command than the ones
\* remembered, with debug on.
C8_Witness ==
    /\ lastOp.op = "write"
    /\ Len(lastOp.data) = 5
    /\ lastOp.data[1] # lastOp.pre.id
    /\ lastOp.data[2] # lastOp.pre.cmd
    /\ debug

\* C9 as claimed: expectedLength is 0 or at least 6 in every reachable state.
C9_Original ==
    _length = 0 \/ _length >= 6

\* C9 amended: expectedLength is 0, at least 6, or 5; and 5 only after a
\* write of command 1, 2, 3 or 4 whose quantity field is 0.
C9_LengthZeroFiveOrMore ==
    \/ _length = 0
    \/ _length >= 6
    \/ /\ _length = 5
       /\ lastWrite.n > 0
       /\ lastWrite.data[2] \in {1, 2, 3, 4}
       /\ LastQuantity = 0

\* C9's case: a read of words with quantity 0 was written.
C9_Witness ==
    /\ lastWrite.n > 0
    /\ lastWrite.data[2] = 3
    /\ LastQuantity = 0
    /\ _length = 5

\* ceil(q / 8) for a natural q.
Ceil8(q) ==
    (q \div 8) + (IF q % 8 = 0 THEN 0 ELSE 1)

\* C10: after a write of at least 6 bytes unitId is byte 0, commandCode is
\* byte 1 and expectedLength is, for the quantity q of bytes 4 and 5,
\* 3 + ceil(q/8) + 2 for commands 1 and 2, 3 + 2q + 2 for commands 3 and 4,
\* 8 for commands 5, 6, 15 and 16, and 0 for every other command.
C10_LengthTable ==
    lastWrite.n > 0 =>
        /\ _id = lastWrite.data[1]
        /\ _cmd = lastWrite.data[2]
        /\ _length = CASE _cmd \in {1, 2} -> 3 + Ceil8(LastQuantity) + 2
                       [] _cmd \in {3, 4} -> 3 + 2 * LastQuantity + 2
                       [] _cmd \in {5, 6, 15, 16} -> 8
                       [] OTHER -> 0

\* C10's case: a read of 65535 bits was written, an answer of 8197 bytes.
C10_Witness ==
    /\ lastWrite.n > 0
    /\ _cmd = 2
    /\ LastQuantity = 65535
    /\ _length = 8197

\* The expectation in force, and the one before the last operation.
Expectation ==
    <<_id, _cmd, _length>>

PreExpectation ==
    <<lastOp.pre.id, lastOp.pre.cmd, lastOp.pre.length>>

\* The expectation that the table of the Modbus answers gives for a request.
TableExpectation(data) ==
    LET q == data[5] * 256 + data[6]
    IN  <<data[1], data[2],
          CASE data[2] \in {1, 2} -> 3 + Ceil8(q) + 2
            [] data[2] \in {3, 4} -> 3 + 2 * q + 2
            [] data[2] \in {5, 6, 15, 16} -> 8
            [] OTHER -> 0>>

ClientWrites ==
    SelectSeq(effects, LAMBDA e : e.event = "write")

\* C12: a write of at least 6 bytes gives its frame to the transport exactly
\* once and unmodified, as the last thing it does, with the expectation
\* already that of the frame, also when the command is not a supported one;
\* so every receive event after it scans with that expectation.
C12_ExpectationSetBeforeHandOff ==
    /\ lastOp.op = "write" /\ Len(lastOp.data) >= 6
          => /\ Len(ClientWrites) = 1
             /\ effects[Len(effects)] = ClientWrites[1]
             /\ ClientWrites[1].data = lastOp.data
             /\ ClientWrites[1].expect = TableExpectation(lastOp.data)
    /\ lastOp.op # "write" => ClientWrites = <<>>
    /\ lastOp.op = "onData" /\ lastWrite.n > 0
          => PreExpectation = TableExpectation(lastWrite.data)

\* C12's case: a request with an unsupported command was written while the
\* expectation of an earlier request was in force.
C12_Witness ==
    /\ lastOp.op = "write"
    /\ Len(lastOp.data) >= 6
    /\ lastOp.data[2] \notin Supported
    /\ lastOp.pre.length >= 6
    /\ Len(ClientWrites) = 1

\* The debug records emitted by the last operation.
DebugRecords ==
    SelectSeq(effects, LAMBDA e : e.event = "debug")

\* C13: with debug on, a receive event that emits a frame emits first one
\* debug record {action: "receive", data: frame} and then the 'data' event
\* with the same bytes, and an accepted write emits one debug record
\* {action: "send", data: frame}; with debug off no debug record is emitted.
C13_DebugRecordsAsDocumented ==
    /\ debug /\ lastOp.op = "onData" /\ LastFrames # <<>>
          => effects = <<[event |-> "debug", action |-> "receive",
                          data |-> LastFrames[1].data],
                         [event |-> "data", action |-> "",
                          data |-> LastFrames[1].data]>>
    /\ debug /\ lastOp.op = "write" /\ Len(lastOp.data) >= 6
          => DebugRecords = <<[event |-> "debug", action |-> "send",
                               data |-> lastOp.data]>>
    /\ ~debug /\ lastOp.op # "setDebug" => DebugRecords = <<>>

\* The buffer that the scan of the last receive event ran on: the bytes held
\* before the event and the chunk, or the last 256 of them.
LastScanned ==
    LET all == lastOp.pre.buffer \o lastOp.data
    IN  IF Len(all) > MAX_BUFFER_LENGTH
        THEN SubSeq(all, Len(all) - MAX_BUFFER_LENGTH + 1, Len(all))
        ELSE all

\* C14: when the scan matched a frame at offset start with length len, the
\* emitted frame is the bytes start .. start+len-1 of the scanned buffer and
\* the buffer afterwards is the bytes that followed them, all and in order.
C14_FrameAndRemainder ==
    lastOp.op = "onData" /\ lastOp.scan.kind = "emit"
        => LET start == lastOp.scan.start
               len == lastOp.scan.len
           IN  /\ Len(LastFrames) = 1
               /\ start + len <= Len(LastScanned)
               /\ LastFrames[1].data = SubSeq(LastScanned, start + 1, start + len)
               /\ _buffer = SubSeq(LastScanned, start + len + 1, Len(LastScanned))

\* C14 where it does hold: the same for a receive event whose bytes, with
\* those already held, are at most 256.
C14_FrameAndRemainderNoCut ==
    Len(lastOp.pre.buffer) + Len(lastOp.data) <= MAX_BUFFER_LENGTH
        => C14_FrameAndRemainder

\* Offset i of the scanned buffer holds the unit followed by the command, or
\* by the exception code of the command.
HeaderAt(i) ==
    /\ i + 2 <= Len(LastScanned)
    /\ LastScanned[i + 1] = _id
    /\ LastScanned[i + 2] \in {_cmd, Or80(_cmd)}

\* The scan of the last receive event came to an offset that holds the unit
\* and the command with fewer than expectedLength bytes from there on: no
\* lower offset holds a header, and the offset is one the scan visits.
C15_Case(i) ==
    /\ lastOp.op = "onData"
    /\ _length >= 6
    /\ i + EXCEPTION_LENGTH <= Len(LastScanned)
    /\ HeaderAt(i)
    /\ LastScanned[i + 2] = _cmd
    /\ i + _length > Len(LastScanned)
    /\ \A j \in 0..(i - 1) : ~HeaderAt(j)

\* C15: when the scan comes to an offset that holds the unit and the command
\* with fewer than expectedLength bytes from there on, the receive event
\* emits no frame, whatever whole frame lies at a higher offset, and leaves
\* the buffer as the scan found it.
C15_PartialFrameStopsScan ==
    \A i \in 0..(Len(LastScanned) - 1) :
        C15_Case(i) => LastFrames = <<>> /\ _buffer = LastScanned

\* C15 where it does hold: the same for a receive event whose bytes, with
\* those already held, are at most 256.
C15_PartialFrameStopsScanNoCut ==
    Len(lastOp.pre.buffer) + Len(lastOp.data) <= MAX_BUFFER_LENGTH
        => C15_PartialFrameStopsScan

\* A receive event in which a partial frame at offset 0 kept a whole
\* exception frame at a higher offset from being emitted.
C15_GuardedException ==
    /\ C15_Case(0)
    /\ \E j \in 1..(Len(LastScanned) - EXCEPTION_LENGTH) :
          /\ LastScanned[j + 1] = _id
          /\ LastScanned[j + 2] = Or80(_cmd)
    /\ LastFrames = <<>>

\* The first chunk received since the last accepted write, and the one after.
FirstChunk ==
    SubSeq(rx, lastWrite.rxAt + 1, lastWrite.rxAt + sizes[lastWrite.evAt + 1])

\* The frame that chunk c begins with, by its function code, and the rest.
FirstOf(c) ==
    LET n == IF c[2] = _cmd THEN _length ELSE EXCEPTION_LENGTH
    IN  SubSeq(c, 1, IF n <= Len(c) THEN n ELSE Len(c))

RestOf(c) ==
    SubSeq(c, Len(FirstOf(c)) + 1, Len(c))

\* The first chunk since a write that found the buffer empty is two whole
\* answers to that write, one after the other.
C16_Case ==
    /\ lastWrite.n > 0
    /\ lastWrite.bufferAt = <<>>
    /\ Len(sizes) >= lastWrite.evAt + 1
    /\ Len(FirstChunk) >= 2 * EXCEPTION_LENGTH
    /\ IsNormal(FirstOf(FirstChunk)) \/ IsException(FirstOf(FirstChunk))
    /\ IsNormal(RestOf(FirstChunk)) \/ IsException(RestOf(FirstChunk))

\* The first frame was emitted by the event of the chunk, the second stays
\* whole in the buffer until the next receive event, which emits it.
C16_SecondByNextEvent ==
    /\ Len(FramesSinceWrite) >= 1
    /\ FramesSinceWrite[1] = [ev |-> lastWrite.evAt + 1, start |-> lastWrite.rxAt,
                              frame |-> FirstOf(FirstChunk)]
    /\ Len(sizes) = lastWrite.evAt + 1
          => /\ Len(FramesSinceWrite) = 1
             /\ _buffer = RestOf(FirstChunk)
    /\ Len(sizes) >= lastWrite.evAt + 2
          => /\ Len(FramesSinceWrite) >= 2
             /\ FramesSinceWrite[2] =
                   [ev |-> lastWrite.evAt + 2,
                    start |-> lastWrite.rxAt + Len(FirstOf(FirstChunk)),
                    frame |-> RestOf(FirstChunk)]

\* C16 as claimed: when one chunk brings two whole matching frames into an
\* empty buffer, its event emits the first, the second stays whole in the
\* buffer, no operation but a receive event emits it, and the very next
\* receive event emits it whatever bytes it delivers.
C16_Original ==
    C16_Case => C16_SecondByNextEvent

\* C16 amended: the same when expectedLength is at least 6, the two frames
\* together are at most 256 bytes, the second frame and the chunk of the
\* next receive event together are at most 256 bytes, and no write of at
\* least 6 bytes comes in between.
C16_SecondFrameByNextEvent ==
    C16_Case /\ _length >= 6
             /\ Len(FirstChunk) <= MAX_BUFFER_LENGTH
             /\ (Len(sizes) >= lastWrite.evAt + 2 =>
                    Len(RestOf(FirstChunk)) + sizes[lastWrite.evAt + 2]
                        <= MAX_BUFFER_LENGTH)
        => C16_SecondByNextEvent

\* C16's case: the receive event after the one of the two frames delivered
\* an empty chunk and emitted the second frame.
C16_Witness ==
    /\ C16_Case
    /\ _length >= 6
    /\ Len(sizes) = lastWrite.evAt + 2
    /\ sizes[Len(sizes)] = 0
    /\ lastOp.op = "onData"
    /\ Len(LastFrames) = 1
    /\ LastFrames[1].data = RestOf(FirstChunk)

\* C17: a write never changes the buffer, so the bytes received before it
\* are still there for the next receive event to scan with the new
\* expectation.
C17_WriteKeepsBuffer ==
    /\ lastOp.op = "write" => _buffer = lastOp.pre.buffer
    /\ lastWrite.n > 0 /\ Len(sizes) = lastWrite.evAt => _buffer = lastWrite.bufferAt

\* C17's case: a frame emitted after a write is made of bytes that had all
\* arrived before that write.
C17_Witness ==
    /\ lastOp.op = "onData"
    /\ Len(FramesSinceWrite) = 1
    /\ Len(LastFrames) = 1
    /\ IsNormal(LastFrames[1].data) \/ IsException(LastFrames[1].data)
    /\ FramesSinceWrite[1].start + Len(FramesSinceWrite[1].frame) <= lastWrite.rxAt

\* C18: every emitted frame is a run of consecutive bytes of the inbound
\* stream, and each emitted frame starts at or after the end of the one
\* emitted before it: no inbound byte is in two frames, none is out of order
\* or made up.
C18_FramesAreDisjointRuns ==
    /\ \A k \in 1..Len(out) :
          /\ out[k].start >= 0
          /\ out[k].start + Len(out[k].frame) <= Len(rx)
          /\ out[k].frame = SubSeq(rx, out[k].start + 1,
                                   out[k].start + Len(out[k].frame))
    /\ \A k \in 1..(Len(out) - 1) :
          out[k].start + Len(out[k].frame) <= out[k + 1].start

\* C18's case: two frames were emitted, the first behind a stray byte and the
\* second not next to the first.
C18_Witness ==
    /\ Len(out) = 2
    /\ out[1].start > 0
    /\ out[1].start + Len(out[1].frame) < out[2].start

\* C19: whenever scanning is enabled (expectedLength at least 6) the command
\* is one of 1, 2, 3, 4, 5, 6, 15, 16, so its high bit is clear,
\* 0x7f & commandCode is commandCode, 0x80 | commandCode is another value,
\* and expectedLength is the table value of the last accepted write.
C19_EnabledMeansSupported ==
    _length >= 6
        => /\ _cmd \in {1, 2, 3, 4, 5, 6, 15, 16}
           /\ _cmd < 128
           /\ And7f(_cmd) = _cmd
           /\ Or80(_cmd) # _cmd
           /\ lastWrite.n > 0
           /\ Expectation = TableExpectation(lastWrite.data)

\* C19's case: scanning is enabled by a write that came after a write of an
\* unsupported command and one of another supported command.
C19_Witness ==
    /\ _length >= 6
    /\ lastWrite.n = 3
    /\ lastOp.op = "write"
    /\ lastOp.pre.length >= 6
    /\ lastOp.pre.length # _length

====
